---------------------------- MODULE Spec2Model ----------------------------
(***************************************************************************)
(* Model of the K-NN music recommender (src/recommender.py) and of the     *)
(* provider client it fetches features with (src/soundnet_api.py).         *)
(*                                                                         *)
(* Values of the provider's feature mapping are tagged Python values:      *)
(* an int, a float, a str (a sequence of one-character strings) or None.   *)
(* Python floats are fixed-point integers counting units of 1/Unit, so     *)
(* 0.5 is Unit \div 2 and 120.0 is 120 * Unit.                             *)
(***************************************************************************)
EXTENDS Integers, Sequences, FiniteSets, TLC

VARIABLES
    dataset,          \* the catalog file read by load_and_prepare_dataset
    features_dict,    \* argument: the raw provider feature mapping
    track_id,         \* argument: the seed track id (NoTrack for None)
    k,                \* argument: the number of recommendations asked for
    pc,               \* the position of the running call ("raised": an
                      \* exception left it)
    raised,           \* TRUE when the body of the call raised
    calls,            \* the functions the ranker called, in order
    converted,        \* the mapping built by convert_soundnet_to_spotify_scale
    fitted_scaler,    \* scaler: the fitted StandardScaler, one entry per column
    matrix_columns,   \* feature_cols_only: the columns of feature_matrix, in order
    query_vector,     \* query_features: the standardised query vector
    indices,          \* kneighbors' row indices, nearest first
    distances,        \* kneighbors' cosine distances, aligned with indices
    first_pass,       \* the recommendations after the exclusion-aware loop
    recommendations,  \* the returned list
    features_cache,   \* _features_cache of soundnet_api
    RAPIDAPI_KEY,     \* TRUE when the environment holds a key
    caller,           \* who called get_audio_features_from_soundnet
    max_retries,      \* argument of get_audio_features_from_soundnet
    attempt,          \* the loop variable of its retry loop
    requests,         \* the HTTP requests the call has issued so far
    features,         \* what the call returned
    ended_by,         \* the response or check that ended the call
    returned_tracks,  \* the tracks a call has returned for since clear_cache
    last              \* the handler that returned last

rankerVars == <<raised, calls, converted, fitted_scaler, matrix_columns,
                query_vector, indices, distances, first_pass, recommendations>>

providerVars == <<features_cache, RAPIDAPI_KEY, caller, max_retries, attempt,
                  requests, features, ended_by, returned_tracks, last>>

vars == <<dataset, features_dict, track_id, k, pc, rankerVars, providerVars>>

----------------------------------------------------------------------------
(* Bounds of the model.                                                    *)

\* at most this many attributes are present in a sparse raw feature set
MaxAttrs == 2

\* a catalog of the ranking specification has at most this many rows
MaxRows == 3

\* the number of rows of its long catalogs, which the over-fetch cannot cover
LongRows == 7

\* at most this many recommendations are asked for
MaxK == 2

\* a cosine similarity is a multiple of 1/Resolution (rounded down)
Resolution == 4

\* get_audio_features_from_soundnet is called with at most this max_retries
MaxRetries == 2

\* a narrow catalog (one that lacks feature columns) has at most this many rows
NarrowRows == 2

\* one unit of a Python float is 1/Unit
Unit == 10 ^ 5

----------------------------------------------------------------------------
(* Python values and strings.                                              *)

PyInt(n) == [t |-> "int", n |-> n, s |-> <<>>]
PyFloat(x) == [t |-> "float", n |-> x, s |-> <<>>]
PyStr(s) == [t |-> "str", n |-> 0, s |-> s]
PyNone == [t |-> "none", n |-> 0, s |-> <<>>]

Digits == <<"0", "1", "2", "3", "4", "5", "6", "7", "8", "9">>
LowerCase == <<"a", "b", "c", "d", "e", "f", "g", "h", "i", "j", "k", "l", "m",
               "n", "o", "p", "q", "r", "s", "t", "u", "v", "w", "x", "y", "z">>
UpperCase == <<"A", "B", "C", "D", "E", "F", "G", "H", "I", "J", "K", "L", "M",
               "N", "O", "P", "Q", "R", "S", "T", "U", "V", "W", "X", "Y", "Z">>

IsDigit(c) == \E i \in 1..10 : Digits[i] = c
DigitVal(c) == (CHOOSE i \in 1..10 : Digits[i] = c) - 1
IsSpace(c) == c \in {" ", "\t", "\n"}

AllDigits(s) == \A i \in 1..Len(s) : IsDigit(s[i])

RECURSIVE NatOf(_)
NatOf(s) ==
    IF s = <<>> THEN 0
    ELSE 10 * NatOf(SubSeq(s, 1, Len(s) - 1)) + DigitVal(s[Len(s)])

RECURSIVE NatStr(_)
NatStr(n) ==
    IF n < 10 THEN <<Digits[n + 1]>>
    ELSE Append(NatStr(n \div 10), Digits[(n % 10) + 1])

\* str.upper() and str.lower(), character by character
UpperChar(c) ==
    IF \E i \in 1..26 : LowerCase[i] = c
    THEN UpperCase[CHOOSE i \in 1..26 : LowerCase[i] = c]
    ELSE c
LowerChar(c) ==
    IF \E i \in 1..26 : UpperCase[i] = c
    THEN LowerCase[CHOOSE i \in 1..26 : UpperCase[i] = c]
    ELSE c
Upper(s) == [i \in 1..Len(s) |-> UpperChar(s[i])]
Lower(s) == [i \in 1..Len(s) |-> LowerChar(s[i])]

\* str.strip()
RECURSIVE LStrip(_)
LStrip(s) == IF s # <<>> /\ IsSpace(s[1]) THEN LStrip(Tail(s)) ELSE s
RECURSIVE RStrip(_)
RStrip(s) ==
    IF s # <<>> /\ IsSpace(s[Len(s)]) THEN RStrip(SubSeq(s, 1, Len(s) - 1)) ELSE s
Strip(s) == LStrip(RStrip(s))

\* sub in s
Contains(s, sub) ==
    \E i \in 1..(Len(s) - Len(sub) + 1) : SubSeq(s, i, i + Len(sub) - 1) = sub

\* s.replace(sub, '') for a non-empty sub
RECURSIVE Remove(_, _)
Remove(s, sub) ==
    IF Len(s) < Len(sub) THEN s
    ELSE IF SubSeq(s, 1, Len(sub)) = sub
         THEN Remove(SubSeq(s, Len(sub) + 1, Len(s)), sub)
         ELSE <<s[1]>> \o Remove(Tail(s), sub)

\* the sign and the unsigned rest of a stripped numeric literal
SignOf(u) == IF u # <<>> /\ u[1] = "-" THEN -1 ELSE 1
Unsigned(u) == IF u # <<>> /\ u[1] \in {"+", "-"} THEN Tail(u) ELSE u

\* int(s): surrounding whitespace, an optional sign, decimal digits
IntParses(s) ==
    LET body == Unsigned(Strip(s)) IN body # <<>> /\ AllDigits(body)
IntValue(s) == SignOf(Strip(s)) * NatOf(Unsigned(Strip(s)))

\* float(s) for decimal literals: surrounding whitespace, an optional sign,
\* digits with at most one point and at least one digit
PointAt(b) == IF \E i \in 1..Len(b) : b[i] = "."
              THEN CHOOSE i \in 1..Len(b) : b[i] = "." /\ \A j \in 1..(i - 1) : b[j] # "."
              ELSE Len(b) + 1
IntPart(b) == SubSeq(b, 1, PointAt(b) - 1)
FracPart(b) == SubSeq(b, PointAt(b) + 1, Len(b))
FloatParses(s) ==
    LET body == Unsigned(Strip(s)) IN
        /\ AllDigits(IntPart(body))
        /\ AllDigits(FracPart(body))
        /\ Len(IntPart(body)) + Len(FracPart(body)) > 0
FracUnits(f) ==
    IF Len(f) <= 5 THEN NatOf(f) * (10 ^ (5 - Len(f))) ELSE NatOf(SubSeq(f, 1, 5))
FloatValue(s) ==
    LET body == Unsigned(Strip(s)) IN
        SignOf(Strip(s)) * (NatOf(IntPart(body)) * Unit + FracUnits(FracPart(body)))

\* str(value)
RECURSIVE DropTrailingZeros(_)
DropTrailingZeros(f) ==
    IF Len(f) > 1 /\ f[Len(f)] = "0" THEN DropTrailingZeros(SubSeq(f, 1, Len(f) - 1))
    ELSE f
Pad5(f) == [i \in 1..(5 - Len(f)) |-> "0"] \o f
Abs(x) == IF x < 0 THEN -x ELSE x
StrOf(value) ==
    CASE value.t = "str" -> value.s
      [] value.t = "int" ->
            (IF value.n < 0 THEN <<"-">> ELSE <<>>) \o NatStr(Abs(value.n))
      [] value.t = "float" ->
            (IF value.n < 0 THEN <<"-">> ELSE <<>>)
                \o NatStr(Abs(value.n) \div Unit) \o <<".">>
                \o DropTrailingZeros(Pad5(NatStr(Abs(value.n) % Unit)))
      [] OTHER -> <<"N", "o", "n", "e">>

\* float(value) of an int or a float
NumberOf(value) == IF value.t = "int" THEN value.n * Unit ELSE value.n

----------------------------------------------------------------------------
(* Dictionaries: functions from a set of keys.                             *)

EmptyDict == <<>>
DictSet(d, key, v) == [x \in (DOMAIN d) \cup {key} |-> IF x = key THEN v ELSE d[x]]
DictPop(d, key) == [x \in (DOMAIN d) \ {key} |-> d[x]]

----------------------------------------------------------------------------
(* convert_soundnet_to_spotify_scale                                       *)

\* the attributes on the provider's 0-100 scale, in the order of the loop
PercentFeatures == <<"danceability", "energy", "happiness", "acousticness",
                     "instrumentalness", "liveness", "speechiness">>

Half == Unit \div 2
DefaultTempo == 120 * Unit
DefaultLoudness == (-10) * Unit

\* ConvertPercent with the division by 100 forgotten for numeric strings
Mutant_ConvertPercent(soundnet_features, feature) ==
    IF feature \in DOMAIN soundnet_features
    THEN LET value == soundnet_features[feature] IN
         IF value.t \in {"int", "float"} THEN NumberOf(value) \div 100
         ELSE IF value.t = "str"
              THEN IF FloatParses(value.s) THEN FloatValue(value.s)
                   ELSE Half
              ELSE Half
    ELSE Half

\* one turn of the loop over the 0-100 attributes
ConvertPercent(soundnet_features, feature) ==
    IF feature \in DOMAIN soundnet_features
    THEN LET value == soundnet_features[feature] IN
         IF value.t \in {"int", "float"} THEN NumberOf(value) \div 100
         ELSE IF value.t = "str"
              THEN IF FloatParses(value.s) THEN FloatValue(value.s) \div 100
                   ELSE Half
              ELSE Half
    ELSE Half

\* the tempo block: [raises |-> an exception leaves the block, v |-> the value]
ConvertTempo(soundnet_features) ==
    IF "tempo" \in DOMAIN soundnet_features
    THEN LET tempo == soundnet_features["tempo"] IN
         IF tempo.t = "str"
         THEN [raises |-> FALSE,
               v |-> IF FloatParses(tempo.s) THEN FloatValue(tempo.s)
                     ELSE DefaultTempo]
         ELSE IF tempo.t \in {"int", "float"}
              THEN [raises |-> FALSE, v |-> NumberOf(tempo)]
              ELSE [raises |-> TRUE, v |-> 0]
    ELSE [raises |-> FALSE, v |-> DefaultTempo]

dB == <<"d", "B">>

\* the loudness block
ConvertLoudness(soundnet_features) ==
    IF "loudness" \in DOMAIN soundnet_features
    THEN LET loudness == soundnet_features["loudness"] IN
         IF loudness.t = "str" /\ Contains(loudness.s, dB)
         THEN LET rest == Strip(Remove(loudness.s, dB)) IN
              [raises |-> FALSE,
               v |-> IF FloatParses(rest) THEN FloatValue(rest)
                     ELSE DefaultLoudness]
         ELSE IF loudness.t = "str"
              THEN IF FloatParses(loudness.s)
                   THEN [raises |-> FALSE, v |-> FloatValue(loudness.s)]
                   ELSE [raises |-> TRUE, v |-> 0]
              ELSE IF loudness.t \in {"int", "float"}
                   THEN [raises |-> FALSE, v |-> NumberOf(loudness)]
                   ELSE [raises |-> TRUE, v |-> 0]
    ELSE [raises |-> FALSE, v |-> DefaultLoudness]

key_map ==
    (<<"C">> :> 0) @@ (<<"C", "#">> :> 1) @@ (<<"D", "b">> :> 1) @@ (<<"D">> :> 2)
    @@ (<<"D", "#">> :> 3) @@ (<<"E", "b">> :> 3) @@ (<<"E">> :> 4) @@ (<<"F">> :> 5)
    @@ (<<"F", "#">> :> 6) @@ (<<"G", "b">> :> 6) @@ (<<"G">> :> 7)
    @@ (<<"G", "#">> :> 8) @@ (<<"A", "b">> :> 8) @@ (<<"A">> :> 9)
    @@ (<<"A", "#">> :> 10) @@ (<<"B", "b">> :> 10) @@ (<<"B">> :> 11)

\* the key block
ConvertKey(soundnet_features) ==
    IF "key" \in DOMAIN soundnet_features
    THEN LET key == Upper(Strip(StrOf(soundnet_features["key"]))) IN
         IF key \in DOMAIN key_map THEN key_map[key]
         ELSE IF IntParses(key)
              THEN IF 0 <= IntValue(key) /\ IntValue(key) <= 11 THEN IntValue(key)
                   ELSE 0
              ELSE 0
    ELSE 0

\* ConvertMode with every integer other than 0 read as major
Mutant_ConvertMode(soundnet_features) ==
    IF "mode" \in DOMAIN soundnet_features
    THEN LET mode == Lower(StrOf(soundnet_features["mode"])) IN
         IF Contains(mode, <<"m", "a", "j", "o", "r">>) THEN 1
         ELSE IF Contains(mode, <<"m", "i", "n", "o", "r">>) THEN 0
         ELSE IF IntParses(mode)
              THEN IF IntValue(mode) = 0 THEN 0 ELSE 1
              ELSE 1
    ELSE 1

\* the mode block
ConvertMode(soundnet_features) ==
    IF "mode" \in DOMAIN soundnet_features
    THEN LET mode == Lower(StrOf(soundnet_features["mode"])) IN
         IF Contains(mode, <<"m", "a", "j", "o", "r">>) THEN 1
         ELSE IF Contains(mode, <<"m", "i", "n", "o", "r">>) THEN 0
         ELSE IF IntParses(mode)
              THEN IF IntValue(mode) = 1 THEN 1 ELSE 0
              ELSE 1
    ELSE 1

\* RenameHappiness with the value copied and the 'happiness' key left in place
Mutant_RenameHappiness(conv) ==
    IF "happiness" \in DOMAIN conv
    THEN DictSet(conv, "valence", conv["happiness"])
    ELSE IF "valence" \notin DOMAIN conv
         THEN DictSet(conv, "valence", Half)
         ELSE conv

\* the closing block: 'happiness' is renamed to 'valence'
RenameHappiness(conv) ==
    IF "happiness" \in DOMAIN conv
    THEN DictSet(DictPop(conv, "happiness"), "valence", conv["happiness"])
    ELSE IF "valence" \notin DOMAIN conv
         THEN DictSet(conv, "valence", Half)
         ELSE conv

\* the dictionary after the loop over the 0-100 attributes
AfterPercent(soundnet_features) ==
    [f \in {PercentFeatures[i] : i \in 1..Len(PercentFeatures)} |->
        ConvertPercent(soundnet_features, f)]

\* The whole function: [raises, converted].  When a block raises, converted
\* is the dictionary as built so far and nothing is returned.
convert_soundnet_to_spotify_scale(soundnet_features) ==
    LET c1 == AfterPercent(soundnet_features)
        tempo == ConvertTempo(soundnet_features)
        c2 == DictSet(c1, "tempo", tempo.v)
        loud == ConvertLoudness(soundnet_features)
        c3 == DictSet(c2, "loudness", loud.v)
        c4 == DictSet(c3, "key", ConvertKey(soundnet_features))
        c5 == DictSet(c4, "mode", ConvertMode(soundnet_features))
    IN  IF tempo.raises THEN [raises |-> TRUE, converted |-> c1]
        ELSE IF loud.raises THEN [raises |-> TRUE, converted |-> c2]
        ELSE [raises |-> FALSE, converted |-> RenameHappiness(c5)]

----------------------------------------------------------------------------
(* The raw feature sets the translator is applied to.                      *)

\* values of a 0-100 attribute: numbers, numeric strings, other strings, None
PercentValues ==
    {PyInt(80), PyInt(0), PyInt(100), PyFloat(4350000),
     PyStr(<<"4", "3">>), PyStr(<<"8", "0", ".", "5">>),
     PyStr(<<" ", "7", " ">>), PyStr(<<"a", "b", "c">>), PyStr(<<>>),
     PyNone}
\* values of tempo
TempoValues ==
    {PyInt(120), PyFloat(9250000), PyStr(<<"9", "2">>),
     PyStr(<<"f", "a", "s", "t">>), PyNone}
\* values of loudness, with and without the dB unit
LoudnessValues ==
    {PyInt(-10), PyFloat(-750000),
     PyStr(<<"-", "1", "0", " ", "d", "B">>),
     PyStr(<<"-", "9", ".", "5", "d", "B">>),
     PyStr(<<"-", "9", ".", "5">>),
     PyStr(<<"l", "o", "u", "d", " ", "d", "B">>),
     PyStr(<<"l", "o", "u", "d">>),
     PyStr(<<"-", "1", "0", " ", "d", "b">>), PyNone}
\* values of key: note names, numeric strings, numbers, other values
KeyValues ==
    {PyStr(<<"C">>), PyStr(<<"C", "#">>), PyStr(<<"D", "b">>),
     PyStr(<<"D", "#">>), PyStr(<<"E", "b">>), PyStr(<<"F", "#">>),
     PyStr(<<"G", "b">>), PyStr(<<"G">>), PyStr(<<"G", "#">>),
     PyStr(<<"A", "b">>), PyStr(<<"a", "#">>), PyStr(<<"B", "b">>),
     PyStr(<<"B">>), PyStr(<<" ", "g", " ">>), PyStr(<<"7">>),
     PyStr(<<"1", "1">>), PyStr(<<"1", "2">>), PyStr(<<"-", "1">>),
     PyStr(<<"H">>), PyStr(<<>>), PyInt(5), PyInt(12), PyFloat(500000),
     PyNone}
\* values of mode
ModeValues ==
    {PyStr(<<"m", "a", "j", "o", "r">>),
     PyStr(<<"M", "i", "n", "o", "r">>),
     PyStr(<<"M", "A", "J", "O", "R">>),
     PyStr(<<"A", " ", "m", "i", "n", "o", "r">>), PyStr(<<"1">>),
     PyStr(<<"0">>), PyStr(<<"2">>), PyStr(<<" ", "1", " ">>),
     PyStr(<<"x">>), PyInt(1), PyInt(0), PyInt(2), PyFloat(100000),
     PyFloat(0), PyNone}

\* the attribute names a raw feature set may carry ('valence' is not one the
\* translator reads)
RawAttributes ==
    {PercentFeatures[i] : i \in 1..Len(PercentFeatures)}
        \cup {"tempo", "loudness", "key", "mode", "valence"}

ValuesOf(attribute) ==
    CASE attribute = "tempo" -> TempoValues
      [] attribute = "loudness" -> LoudnessValues
      [] attribute = "key" -> KeyValues
      [] attribute = "mode" -> ModeValues
      [] attribute = "valence" -> {PyFloat(90000)}
      [] OTHER -> PercentValues

\* a few values of each attribute: a well-formed one, a malformed one, None
CoreValuesOf(attribute) ==
    CASE attribute = "tempo" ->
            {PyStr(<<"9", "2">>), PyStr(<<"f", "a", "s", "t">>), PyNone}
      [] attribute = "loudness" ->
            {PyStr(<<"-", "1", "0", " ", "d", "B">>), PyStr(<<"l", "o", "u", "d">>), PyNone}
      [] attribute = "key" -> {PyStr(<<"G">>), PyStr(<<"D", "b">>), PyNone}
      [] attribute = "mode" -> {PyStr(<<"M", "i", "n", "o", "r">>), PyStr(<<"2">>), PyNone}
      [] attribute = "valence" -> {PyFloat(90000)}
      [] OTHER -> {PyInt(80), PyStr(<<"a", "b", "c">>), PyNone}

\* every dictionary over the attributes D with a core value for each
RECURSIVE DictsOver(_)
DictsOver(D) ==
    IF D = {} THEN {EmptyDict}
    ELSE LET a == CHOOSE x \in D : TRUE IN
         {DictSet(d, a, v) : d \in DictsOver(D \ {a}), v \in CoreValuesOf(a)}

\* the mock payload of the source's test block
mock_features ==
    [key |-> PyStr(<<"G">>), mode |-> PyStr(<<"m", "a", "j", "o", "r">>),
     tempo |-> PyStr(<<"9", "2">>), energy |-> PyStr(<<"4", "3">>),
     danceability |-> PyStr(<<"5", "2">>), happiness |-> PyStr(<<"1", "0">>),
     acousticness |-> PyStr(<<"1">>), instrumentalness |-> PyStr(<<"0">>),
     liveness |-> PyStr(<<"1", "3">>), speechiness |-> PyStr(<<"4">>),
     loudness |-> PyStr(<<"-", "1", "0", " ", "d", "B">>)]

\* sparse payloads (at most MaxAttrs attributes, core values), payloads of
\* one attribute with each of its values, and the full payload with one
\* attribute changed or dropped
RawFeatureSets ==
    UNION {DictsOver(D) : D \in {X \in SUBSET RawAttributes : Cardinality(X) <= MaxAttrs}}
        \cup UNION {{DictSet(EmptyDict, a, v) : v \in ValuesOf(a)} : a \in RawAttributes}
        \cup UNION {{DictSet(mock_features, a, v) : v \in ValuesOf(a)} : a \in RawAttributes}
        \cup {DictPop(mock_features, a) : a \in RawAttributes}

----------------------------------------------------------------------------
(* load_and_prepare_dataset                                                *)
(*                                                                         *)
(* A dataset is [columns |-> the column names of the CSV, rows |-> its     *)
(* rows, each a dictionary over the columns].  The fitted StandardScaler   *)
(* holds, per feature column, the column's sum S and its row count N       *)
(* (mean_ = S / N) and W = N^2 * scale_^2, where scale_^2 is the           *)
(* column's variance, or 1 when the variance is 0.  A standardised value   *)
(* (x - mean_) / scale_ is then (N * x - S) / sqrt(W); only its numerator  *)
(* is stored.                                                              *)

feature_columns == <<"danceability", "energy", "key", "loudness", "mode",
                     "speechiness", "acousticness", "instrumentalness",
                     "liveness", "valence", "tempo">>
metadata_cols == <<"track_id", "track_name", "artists", "album_name">>

SeqToSet(s) == {s[i] : i \in 1..Len(s)}

RECURSIVE SumOver(_, _)
SumOver(f, D) ==
    IF D = {} THEN 0
    ELSE LET x == CHOOSE y \in D : TRUE IN f[x] + SumOver(f, D \ {x})

RECURSIVE ProdOver(_, _)
ProdOver(f, D) ==
    IF D = {} THEN 1
    ELSE LET x == CHOOSE y \in D : TRUE IN f[x] * ProdOver(f, D \ {x})

\* the columns of the dataset that are feature columns, in canonical order
AvailableFeatures(df) ==
    LET InDataset(col) == col \in df.columns IN SelectSeq(feature_columns, InDataset)

\* StandardScaler().fit on the rows' column col
FitColumn(rows, col) ==
    LET N == Len(rows)
        S == SumOver([i \in 1..N |-> rows[i][col]], 1..N)
        SS == SumOver([i \in 1..N |-> rows[i][col] * rows[i][col]], 1..N)
        V == N * SS - S * S
    IN  [S |-> S, N |-> N, W |-> IF V > 0 THEN V ELSE N * N]

\* scaler.transform of the value x in slot j: the scaler's parameters are
\* arrays, one entry per column it was fitted on, in the order of fitting
Transform(scaler, j, x) == scaler[j].N * x - scaler[j].S

\* list.index
IndexOf(seq, x) == CHOOSE j \in 1..Len(seq) : seq[j] = x

\* [raises, feature_df, scaler, available_features]: fit_transform raises
\* on a table with no row or no feature column
load_and_prepare_dataset(df) ==
    LET available_features == AvailableFeatures(df)
        cols == SeqToSet(available_features)
        scaler == [j \in 1..Len(available_features) |->
                      FitColumn(df.rows, available_features[j])]
        KeepsColumn(col) == col \in cols \/ col \in SeqToSet(metadata_cols)
        feature_df ==
            [i \in 1..Len(df.rows) |->
                [col \in {c \in df.columns : KeepsColumn(c)} |->
                    IF col \in cols
                    THEN Transform(scaler, IndexOf(available_features, col),
                                   df.rows[i][col])
                    ELSE df.rows[i][col]]]
    IN  IF Len(df.rows) = 0 \/ cols = {}
        THEN [raises |-> TRUE, feature_df |-> <<>>, scaler |-> <<>>,
              available_features |-> available_features]
        ELSE [raises |-> FALSE, feature_df |-> feature_df, scaler |-> scaler,
              available_features |-> available_features]

----------------------------------------------------------------------------
(* prepare_soundnet_features                                               *)

DefaultFor(col) ==
    CASE col \in {"danceability", "energy", "valence", "acousticness",
                  "instrumentalness", "liveness", "speechiness"} -> Half
      [] col = "key" -> 0
      [] col = "mode" -> 1
      [] col = "tempo" -> DefaultTempo
      [] col = "loudness" -> DefaultLoudness
      [] OTHER -> 0

\* FeatureVector filled from the last column to the first
Mutant_FeatureVector(spotify_features, feature_cols) ==
    [j \in 1..Len(feature_cols) |->
        IF feature_cols[Len(feature_cols) + 1 - j] \in DOMAIN spotify_features
        THEN spotify_features[feature_cols[Len(feature_cols) + 1 - j]]
        ELSE DefaultFor(feature_cols[Len(feature_cols) + 1 - j])]

\* feature_vector: one value per entry of feature_cols, in that order
FeatureVector(spotify_features, feature_cols) ==
    [j \in 1..Len(feature_cols) |->
        IF feature_cols[j] \in DOMAIN spotify_features
        THEN spotify_features[feature_cols[j]]
        ELSE DefaultFor(feature_cols[j])]

\* prepare_soundnet_features with a scaler fitted on the query itself: a
\* single sample standardises to zero
Mutant_prepare_soundnet_features(raw, scaler, feature_cols) ==
    IF convert_soundnet_to_spotify_scale(raw).raises \/ Len(feature_cols) # Len(scaler)
    THEN [raises |-> TRUE, query_features |-> <<>>]
    ELSE [raises |-> FALSE,
          query_features |-> [j \in 1..Len(feature_cols) |-> 0]]

\* [raises, query_features]: the query vector, one slot per entry of
\* feature_cols in that order, standardised slot by slot with the
\* dataset's scaler; transform raises when the vector's length is not the
\* number of columns the scaler was fitted on
prepare_soundnet_features(raw, scaler, feature_cols) ==
    LET r == convert_soundnet_to_spotify_scale(raw)
        feature_vector == FeatureVector(r.converted, feature_cols)
    IN  IF r.raises \/ Len(feature_cols) # Len(scaler)
        THEN [raises |-> TRUE, query_features |-> <<>>]
        ELSE [raises |-> FALSE,
              query_features |->
                [j \in 1..Len(feature_cols) |->
                    Transform(scaler, j, feature_vector[j])]]

----------------------------------------------------------------------------
(* NearestNeighbors(metric='cosine', algorithm='brute')                    *)

\* the numerators and the denominator of the cosine of two standardised
\* vectors u and v (sequences of numerators, slot by slot), all scaled by
\* the product of the slots' W
Weight(scaler, j) ==
    ProdOver([c \in 1..Len(scaler) |-> scaler[c].W], (1..Len(scaler)) \ {j})
DotW(scaler, u, v) ==
    SumOver([j \in 1..Len(u) |-> u[j] * v[j] * Weight(scaler, j)], 1..Len(u))

\* floor(Resolution * cos(u, v)); the cosine with a zero vector is 0
CosineSimilarity(scaler, u, v) ==
    LET AtLeast(t, D, AB) ==
            IF t > 0 THEN D > 0 /\ t * t * AB <= Resolution * Resolution * D * D
            ELSE D >= 0 \/ t * t * AB >= Resolution * Resolution * D * D
        Floor(D, AB) ==
            IF AB = 0 THEN 0
            ELSE CHOOSE t \in (-Resolution)..Resolution :
                    /\ AtLeast(t, D, AB)
                    /\ \A t2 \in (t + 1)..Resolution : ~AtLeast(t2, D, AB)
    IN  CHOOSE s \in {Floor(D, AB) :
                        D \in {DotW(scaler, u, v)},
                        AB \in {DotW(scaler, u, u) * DotW(scaler, v, v)}} : TRUE

\* the cosine distance 1 - cos, in units of 1/Resolution
CosineDistance(scaler, u, v) == Resolution - CosineSimilarity(scaler, u, v)

\* NeighborOrders with the farthest rows first
RECURSIVE Mutant_NeighborOrders(_, _, _, _)
Mutant_NeighborOrders(rows, dist, I, n) ==
    IF n = 0 \/ I = {} THEN {<<>>}
    ELSE UNION {{<<i>> \o rest : rest \in Mutant_NeighborOrders(rows, dist, I \ {i}, n - 1)} :
                    i \in {j \in I : /\ \A j2 \in I : dist[j] >= dist[j2]
                                     /\ \A j2 \in I : j2 < j => rows[j2] # rows[j]}}

\* Every order in which kneighbors may return n of the rows I: nearest
\* first, rows at equal distance in any order.  Of two equal rows (the same
\* id and the same features) the earlier comes first: their order changes
\* nothing but the two indices.
RECURSIVE NeighborOrders(_, _, _, _)
NeighborOrders(rows, dist, I, n) ==
    IF n = 0 \/ I = {} THEN {<<>>}
    ELSE UNION {{<<i>> \o rest : rest \in NeighborOrders(rows, dist, I \ {i}, n - 1)} :
                    i \in {j \in I : /\ \A j2 \in I : dist[j] <= dist[j2]
                                     /\ \A j2 \in I : j2 < j => rows[j2] # rows[j]}}

----------------------------------------------------------------------------
(* get_recommendations_from_features                                       *)

NoTrack == "None"

\* track_data.get(col, 'Unknown')
Get(track_data, col) ==
    IF col \in DOMAIN track_data THEN track_data[col] ELSE "Unknown"

Recommendation(track_data, distance) ==
    [track_id |-> Get(track_data, "track_id"),
     track_name |-> Get(track_data, "track_name"),
     artists |-> Get(track_data, "artists"),
     album_name |-> Get(track_data, "album_name"),
     similarity_score |-> Resolution - distance]

\* a duplicate check that lets the defaulted identifier through
Mutant_InRecommendations(recs, id) ==
    id # "Unknown" /\ \E j \in 1..Len(recs) : recs[j].track_id = id

\* any(rec['track_id'] == current_track_id for rec in recommendations)
InRecommendations(recs, id) == \E j \in 1..Len(recs) : recs[j].track_id = id

OverfetchMargin == 5

\* NNeighbors without the over-fetch margin
Mutant_NNeighbors(kk, n) == IF kk < n THEN kk ELSE n

\* min(k + 5, len(feature_matrix))
NNeighbors(kk, n) == IF kk + OverfetchMargin < n THEN kk + OverfetchMargin ELSE n

\* the first loop, from candidate i on: the seed and repeated ids are skipped
RECURSIVE FirstPass(_, _, _, _, _, _, _)
FirstPass(feature_df, ind, dist, seed, kk, recs, i) ==
    IF i > Len(ind) \/ Len(recs) >= kk THEN recs
    ELSE LET track_data == feature_df[ind[i]]
             current_track_id == Get(track_data, "track_id")
         IN  IF seed # NoTrack /\ current_track_id = seed
             THEN FirstPass(feature_df, ind, dist, seed, kk, recs, i + 1)
             ELSE IF InRecommendations(recs, current_track_id)
             THEN FirstPass(feature_df, ind, dist, seed, kk, recs, i + 1)
             ELSE FirstPass(feature_df, ind, dist, seed, kk,
                            Append(recs, Recommendation(track_data, dist[i])), i + 1)

\* FallbackPass without the duplicate check
RECURSIVE Mutant_FallbackPass(_, _, _, _, _, _)
Mutant_FallbackPass(feature_df, ind, dist, kk, recs, i) ==
    IF i > Len(ind) \/ Len(recs) >= kk THEN recs
    ELSE Mutant_FallbackPass(feature_df, ind, dist, kk,
                             Append(recs, Recommendation(feature_df[ind[i]], dist[i])),
                             i + 1)

\* the second loop, from candidate i on: only repeated ids are skipped
RECURSIVE FallbackPass(_, _, _, _, _, _)
FallbackPass(feature_df, ind, dist, kk, recs, i) ==
    IF i > Len(ind) \/ Len(recs) >= kk THEN recs
    ELSE LET track_data == feature_df[ind[i]]
             current_track_id == Get(track_data, "track_id")
         IN  IF InRecommendations(recs, current_track_id)
             THEN FallbackPass(feature_df, ind, dist, kk, recs, i + 1)
             ELSE FallbackPass(feature_df, ind, dist, kk,
                               Append(recs, Recommendation(track_data, dist[i])), i + 1)

\* SelectRecommendations with the fallback loop alone: the seed is never
\* excluded
Mutant_SelectIgnoringSeed(feature_df, ind, dist, seed, kk) ==
    FallbackPass(feature_df, ind, dist, kk, <<>>, 1)

\* SelectRecommendations without the fallback loop
Mutant_SelectRecommendations(feature_df, ind, dist, seed, kk) ==
    FirstPass(feature_df, ind, dist, seed, kk, <<>>, 1)

\* the recommendations built from kneighbors' answer
SelectRecommendations(feature_df, ind, dist, seed, kk) ==
    LET recs == FirstPass(feature_df, ind, dist, seed, kk, <<>>, 1) IN
        IF Len(recs) < kk THEN FallbackPass(feature_df, ind, dist, kk, recs, 1)
        ELSE recs

\* the classes the two except clauses name, and their subclasses that the
\* try block can raise
ExceptionClasses == {"FileNotFoundError", "ValueError", "TypeError"}

\* only the first except clause
Mutant_Catches(exception) == exception = "FileNotFoundError"

\* except FileNotFoundError / except Exception
Catches(exception) ==
    exception = "FileNotFoundError" \/ exception \in ExceptionClasses

\* the class of the exception float() raises in the translator: TypeError
\* for None, ValueError for a string
TranslatorException(raw) ==
    IF ConvertTempo(raw).raises THEN "TypeError"
    ELSE IF raw["loudness"].t = "str" THEN "ValueError"
    ELSE "TypeError"

\* model.fit and the query: [raises, exception, calls, converted, scaler,
\* feature_cols_only, query_features, feature_df, n_neighbors, dist]; calls
\* lists the functions called, in order, and dist is the cosine distance
\* of every row of feature_matrix to the query
FitAndQuery(df, raw, kk) ==
    LET n_neighbors == NNeighbors(kk, Len(df.rows))
        FeatureColsOnly(loaded) ==
            SelectSeq(loaded.available_features,
                      LAMBDA col : col \notin SeqToSet(metadata_cols))
        FeatureMatrix(loaded) ==
            [i \in 1..Len(loaded.feature_df) |->
                [j \in 1..Len(FeatureColsOnly(loaded)) |->
                    loaded.feature_df[i][FeatureColsOnly(loaded)[j]]]]
        Failed(exception, called, conv, loaded) ==
            [raises |-> TRUE, exception |-> exception,
             calls |-> called, converted |-> conv,
             scaler |-> loaded.scaler, feature_cols_only |-> <<>>,
             query_features |-> <<>>, feature_df |-> <<>>,
             n_neighbors |-> 0, dist |-> <<>>]
        Query(loaded, r, query) ==
            IF query.raises
            THEN Failed(IF r.raises THEN TranslatorException(raw) ELSE "ValueError",
                        <<"load_and_prepare_dataset", "prepare_soundnet_features",
                          "convert_soundnet_to_spotify_scale">>, r.converted, loaded)
            ELSE [raises |-> FALSE,
                  exception |-> "none",
                  calls |-> <<"load_and_prepare_dataset", "prepare_soundnet_features",
                              "convert_soundnet_to_spotify_scale">>,
                  converted |-> r.converted,
                  scaler |-> loaded.scaler,
                  feature_cols_only |-> FeatureColsOnly(loaded),
                  query_features |-> query.query_features,
                  feature_df |-> loaded.feature_df,
                  n_neighbors |-> n_neighbors,
                  dist |-> [i \in 1..Len(df.rows) |->
                              CosineDistance(loaded.scaler, query.query_features,
                                             FeatureMatrix(loaded)[i])]]
        Fitted(loaded) ==
            IF loaded.raises \/ n_neighbors <= 0
            THEN Failed("ValueError", <<"load_and_prepare_dataset">>, EmptyDict, loaded)
            ELSE CHOOSE q \in {Query(loaded, r, query) :
                                r \in {convert_soundnet_to_spotify_scale(raw)},
                                query \in {prepare_soundnet_features(
                                              raw, loaded.scaler,
                                              FeatureColsOnly(loaded))}} : TRUE
    IN  CHOOSE q \in {Fitted(loaded) : loaded \in {load_and_prepare_dataset(df)}} : TRUE

\* Every outcome of one call: [raises, propagates, calls, converted,
\* scaler, feature_cols_only, query_features, indices, distances,
\* first_pass, recommendations].  An exception raised in the try block and
\* caught by an except clause returns the empty list; one that no clause
\* catches propagates to the caller.
get_recommendations_from_features(raw, seed, df, kk) ==
    LET Outcome(q, ind, dist) ==
            [raises |-> FALSE,
             propagates |-> FALSE,
             calls |-> q.calls,
             converted |-> q.converted,
             scaler |-> q.scaler,
             feature_cols_only |-> q.feature_cols_only,
             query_features |-> q.query_features,
             indices |-> ind,
             distances |-> dist,
             first_pass |-> FirstPass(q.feature_df, ind, dist, seed, kk, <<>>, 1),
             recommendations |-> SelectRecommendations(q.feature_df, ind, dist, seed, kk)]
        Outcomes(q) ==
            IF q.raises
            THEN {[raises |-> TRUE, propagates |-> ~Catches(q.exception),
                   calls |-> q.calls, converted |-> q.converted,
                   scaler |-> q.scaler, feature_cols_only |-> <<>>,
                   query_features |-> <<>>, indices |-> <<>>,
                   distances |-> <<>>, first_pass |-> <<>>, recommendations |-> <<>>]}
            ELSE UNION {{Outcome(q, ind, dist) :
                            dist \in {[i \in 1..Len(ind) |-> q.dist[ind[i]]]}} :
                        ind \in NeighborOrders(df.rows, q.dist, 1..Len(df.rows),
                                               q.n_neighbors)}
    IN  UNION {Outcomes(q) : q \in {FitAndQuery(df, raw, kk)}}

----------------------------------------------------------------------------
(* The catalogs and the calls of the ranking specification.                *)

\* the rows a catalog is made of: an id, and a key and a mode of 0 or 1
CatalogRows ==
    {[track_id |-> "t1", key |-> 0, mode |-> 0],
     [track_id |-> "t1", key |-> 1, mode |-> 1],
     [track_id |-> "t2", key |-> 1, mode |-> 0],
     [track_id |-> "t3", key |-> 0, mode |-> 1]}

\* the rows of the long catalogs
LongCatalogRows ==
    {[track_id |-> "t1", key |-> 0, mode |-> 0],
     [track_id |-> "t2", key |-> 1, mode |-> 1]}

RECURSIVE SeqsOf(_, _)
SeqsOf(S, n) ==
    IF n = 0 THEN {<<>>}
    ELSE {Append(q, x) : q \in SeqsOf(S, n - 1), x \in S}

CatalogColumns == {"track_id", "key", "mode"}

\* the row with only the columns cols
Project(row, cols) == [col \in cols |-> row[col]]

\* the catalogs that lack one or both of the feature columns
NarrowDatasets ==
    {[columns |-> {"track_id"} \cup cols,
      rows |-> [i \in 1..Len(r) |-> Project(r[i], {"track_id"} \cup cols)]] :
        cols \in (SUBSET {"key", "mode"}) \ {{"key", "mode"}},
        r \in UNION {SeqsOf(CatalogRows, n) : n \in 1..NarrowRows}}

\* the long catalogs: LongRows rows, the first n one row and the others
\* another
LongCatalogs ==
    {[i \in 1..LongRows |-> IF i <= n THEN first ELSE other] :
        n \in 0..LongRows, first \in LongCatalogRows, other \in LongCatalogRows}

\* the catalogs without a track_id column: short ones and the long ones
AnonymousDatasets ==
    {[columns |-> {"key", "mode"},
      rows |-> [i \in 1..Len(r) |-> Project(r[i], {"key", "mode"})]] :
        r \in UNION {SeqsOf(CatalogRows, n) : n \in 0..NarrowRows} \cup LongCatalogs}

Datasets ==
    {[columns |-> CatalogColumns, rows |-> r] :
        r \in UNION {SeqsOf(CatalogRows, n) : n \in 0..MaxRows} \cup LongCatalogs}
    \cup NarrowDatasets
    \cup AnonymousDatasets

\* the seeds of a call on catalog df: none, a track id, and the identifier
\* the rows default to when df has no track_id column
Seeds(df) ==
    {NoTrack, "t1"} \cup (IF "track_id" \in df.columns THEN {} ELSE {"Unknown"})

\* the payloads of the calls: all defaults, two well-formed ones, and the
\* second with a garbled loudness
WellFormedQuery ==
    [key |-> PyStr(<<"C", "#">>), mode |-> PyStr(<<"m", "a", "j", "o", "r">>),
     loudness |-> PyStr(<<"-", "7", " ", "d", "B">>)]
Queries ==
    {EmptyDict,
     [key |-> PyStr(<<"C">>), mode |-> PyStr(<<"m", "i", "n", "o", "r">>)],
     WellFormedQuery,
     DictSet(WellFormedQuery, "loudness", PyStr(<<"l", "o", "u", "d">>))}

\* no call of the ranker has run
RankerIdle ==
    /\ raised = FALSE
    /\ calls = <<>>
    /\ converted = EmptyDict
    /\ fitted_scaler = <<>>
    /\ matrix_columns = <<>>
    /\ query_vector = <<>>
    /\ indices = <<>>
    /\ distances = <<>>
    /\ first_pass = <<>>
    /\ recommendations = <<>>

\* the provider client is not in use: an empty cache, no call made
ProviderIdle ==
    /\ features_cache = EmptyDict
    /\ RAPIDAPI_KEY = TRUE
    /\ caller = "none"
    /\ max_retries = 0
    /\ attempt = 0
    /\ requests = 0
    /\ features = PyNone
    /\ ended_by = "none"
    /\ returned_tracks = {}
    /\ last = "none"

Init ==
    /\ dataset \in Datasets
    /\ features_dict \in Queries
    /\ track_id \in Seeds(dataset)
    /\ k \in 1..MaxK
    /\ pc = "start"
    /\ RankerIdle
    /\ ProviderIdle

\* the ranker's variables after a call with the outcome out
RankerReturns(out) ==
    /\ raised' = out.raises
    /\ calls' = out.calls
    /\ converted' = out.converted
    /\ fitted_scaler' = out.scaler
    /\ matrix_columns' = out.feature_cols_only
    /\ query_vector' = out.query_features
    /\ indices' = out.indices
    /\ distances' = out.distances
    /\ first_pass' = out.first_pass
    /\ recommendations' = out.recommendations

\* one call of get_recommendations_from_features(features_dict, track_id,
\* dataset, k)
GetRecommendationsFromFeatures ==
    /\ pc = "start"
    /\ \E out \in get_recommendations_from_features(features_dict, track_id, dataset, k) :
        /\ RankerReturns(out)
        /\ pc' = IF out.propagates THEN "raised" ELSE "done"
    /\ UNCHANGED <<dataset, features_dict, track_id, k, providerVars>>

Next == GetRecommendationsFromFeatures

Spec == Init /\ [][Next]_vars

----------------------------------------------------------------------------
(* The translator applied to a raw feature set.                            *)

NoDataset == [columns |-> {}, rows |-> <<>>]

InitTranslate ==
    /\ features_dict \in RawFeatureSets
    /\ dataset = NoDataset
    /\ track_id = NoTrack
    /\ k = 0
    /\ pc = "start"
    /\ RankerIdle
    /\ ProviderIdle

\* one call of convert_soundnet_to_spotify_scale(features_dict)
Translate ==
    /\ pc = "start"
    /\ LET r == convert_soundnet_to_spotify_scale(features_dict) IN
        /\ raised' = r.raises
        /\ converted' = r.converted
    /\ pc' = "done"
    /\ UNCHANGED <<dataset, features_dict, track_id, k, calls, fitted_scaler,
                   matrix_columns, query_vector, indices, distances,
                   first_pass, recommendations, providerVars>>

NextTranslate == Translate

SpecTranslate == InitTranslate /\ [][NextTranslate]_vars

----------------------------------------------------------------------------
(* soundnet_api: the provider client, and get_recommendations on top of    *)
(* it.  A call of get_audio_features_from_soundnet that goes to the        *)
(* provider takes one step per iteration of its retry loop.                *)

\* a mapping as a Python value, next to PyNone
PyDict(d) == [t |-> "dict", d |-> d]

\* get_recommendations with "if features is None"
Mutant_Falsy(value) == value.t = "none"

\* not value
Falsy(value) == value.t = "none" \/ (value.t = "dict" /\ DOMAIN value.d = {})

\* the track ids of a session and the mappings the provider answers with
Tracks == {"t1", "t2"}
Payloads == {EmptyDict, WellFormedQuery}

\* what one requests.get can end in: a status code (a 200 with a JSON
\* body or with a body that does not decode) or an exception
Responses ==
    {[kind |-> "200", json |-> PyDict(p)] : p \in Payloads}
    \cup {[kind |-> kind, json |-> PyNone] :
            kind \in {"200 invalid", "401", "403", "404", "429", "500",
                      "Timeout", "RequestException"}}

DefaultMaxRetries == 2

\* a cache check that takes a stored None for a miss:
\* "if _features_cache.get(track_id)"
Mutant_InCache(cache, track) ==
    track \in DOMAIN cache /\ cache[track] # PyNone

\* track_id in _features_cache
InCache(cache, track) == track \in DOMAIN cache

\* a return that hands an empty mapping, not None, to the caller of a call
\* that ended on a missing key or on a refusal of the provider
Mutant_Return(who, track, value, reason) ==
    /\ features' = IF reason \in {"no key", "401", "403", "429"}
                   THEN PyDict(EmptyDict) ELSE value
    /\ ended_by' = reason
    /\ returned_tracks' = returned_tracks \cup {track}
    /\ pc' = IF who = "get_recommendations" THEN "returned" ELSE "idle"
    /\ last' = IF who = "get_recommendations" THEN last
               ELSE "get_audio_features_from_soundnet"

\* a retry loop that runs once more
Mutant_LoopRange(retries) == retries + 2

\* range(max_retries + 1): the number of iterations of the retry loop
LoopRange(retries) == retries + 1

\* the catalogs of a session: a header-only file, and files of one and of
\* two rows
SessionDatasets ==
    {[columns |-> CatalogColumns, rows |-> r] :
        r \in {<<>>,
               <<[track_id |-> "t2", key |-> 1, mode |-> 0]>>,
               <<[track_id |-> "t1", key |-> 0, mode |-> 0],
                 [track_id |-> "t2", key |-> 1, mode |-> 0]>>}}

InitSession ==
    /\ dataset \in SessionDatasets
    /\ features_dict = EmptyDict
    /\ track_id = NoTrack
    /\ k \in 1..MaxK
    /\ pc = "idle"
    /\ RankerIdle
    /\ features_cache = EmptyDict
    /\ RAPIDAPI_KEY \in BOOLEAN
    /\ caller = "none"
    /\ max_retries = 0
    /\ attempt = 0
    /\ requests = 0
    /\ features = PyNone
    /\ ended_by = "none"
    /\ returned_tracks = {}
    /\ last = "none"

\* get_audio_features_from_soundnet returns value for track to who called
\* it, the call ended by reason
Return(who, track, value, reason) ==
    /\ features' = value
    /\ ended_by' = reason
    /\ returned_tracks' = returned_tracks \cup {track}
    /\ pc' = IF who = "get_recommendations" THEN "returned" ELSE "idle"
    /\ last' = IF who = "get_recommendations" THEN last
               ELSE "get_audio_features_from_soundnet"

\* the entry of get_audio_features_from_soundnet(track, retries), called by
\* who: the cache check and the key check, then the loop
BeginCall(who, track, retries) ==
    /\ pc = "idle"
    /\ caller' = who
    /\ track_id' = track
    /\ max_retries' = retries
    /\ attempt' = 0
    /\ requests' = 0
    /\ features_dict' = EmptyDict
    /\ raised' = FALSE /\ calls' = <<>> /\ converted' = EmptyDict
    /\ fitted_scaler' = <<>> /\ matrix_columns' = <<>> /\ query_vector' = <<>>
    /\ indices' = <<>> /\ distances' = <<>> /\ first_pass' = <<>>
    /\ recommendations' = <<>>
    /\ IF InCache(features_cache, track)
       THEN Return(who, track, features_cache[track], "cache")
       ELSE IF ~RAPIDAPI_KEY
       THEN Return(who, track, PyNone, "no key")
       ELSE /\ pc' = "request"
            /\ features' = PyNone
            /\ ended_by' = "none"
            /\ UNCHANGED <<returned_tracks, last>>
    /\ UNCHANGED <<dataset, k, features_cache, RAPIDAPI_KEY>>

\* show_song_page fetches the features of a track
Fetch ==
    \E track \in Tracks, retries \in 0..MaxRetries :
        BeginCall("show_song_page", track, retries)

\* get_recommendations(track): the fetch it starts with
GetRecommendations ==
    \E track \in Tracks : BeginCall("get_recommendations", track, DefaultMaxRetries)

\* one iteration of the retry loop: a request, and what its response leads
\* to.  An iteration that continues after the last attempt leaves the
\* loop: the failure is cached and None returned.
Attempt ==
    /\ pc = "request"
    /\ attempt < LoopRange(max_retries)
    /\ requests' = requests + 1
    /\ \E response \in Responses :
        LET Stop(value, reason) ==
                /\ Return(caller, track_id, value, reason)
                /\ UNCHANGED attempt
            Cached(value, reason) ==
                /\ features_cache' = DictSet(features_cache, track_id, value)
                /\ Stop(value, reason)
            Uncached(reason) ==
                /\ UNCHANGED features_cache
                /\ Stop(PyNone, reason)
            Continue ==
                IF attempt + 1 < LoopRange(max_retries)
                THEN /\ attempt' = attempt + 1
                     /\ UNCHANGED <<pc, features, ended_by, returned_tracks, last,
                                    features_cache>>
                ELSE Cached(PyNone, "exhausted")
            Retry(reason) ==
                IF attempt < max_retries
                THEN /\ attempt' = attempt + 1
                     /\ UNCHANGED <<pc, features, ended_by, returned_tracks, last,
                                    features_cache>>
                ELSE Cached(PyNone, reason)
        IN  CASE response.kind = "200" -> Cached(response.json, "200")
              [] response.kind = "200 invalid" -> Continue
              [] response.kind \in {"401", "403"} -> Uncached(response.kind)
              [] response.kind = "404" -> Cached(PyNone, "404")
              [] response.kind = "429" ->
                    IF attempt < max_retries
                    THEN /\ attempt' = attempt + 1
                         /\ UNCHANGED <<pc, features, ended_by, returned_tracks,
                                        last, features_cache>>
                    ELSE Uncached("429")
              [] response.kind = "500" -> Continue
              [] response.kind \in {"Timeout", "RequestException"} ->
                    Retry(response.kind)
    /\ UNCHANGED <<dataset, features_dict, track_id, k, rankerVars,
                   RAPIDAPI_KEY, caller, max_retries>>

\* get_recommendations after the fetch: the empty list when there are no
\* features, the ranker's list otherwise
Orchestrate ==
    /\ pc = "returned"
    /\ IF Falsy(features)
       THEN /\ pc' = "idle"
            /\ UNCHANGED <<features_dict, rankerVars>>
       ELSE /\ features_dict' = features.d
            /\ \E out \in get_recommendations_from_features(features.d, track_id,
                                                           dataset, k) :
                /\ RankerReturns(out)
                /\ pc' = IF out.propagates THEN "raised" ELSE "idle"
    /\ last' = "get_recommendations"
    /\ UNCHANGED <<dataset, track_id, k, features_cache, RAPIDAPI_KEY, caller,
                   max_retries, attempt, requests, features, ended_by,
                   returned_tracks>>

\* clear_cache()
ClearCache ==
    /\ pc = "idle"
    /\ features_cache' = EmptyDict
    /\ returned_tracks' = {}
    /\ last' = "clear_cache"
    /\ UNCHANGED <<dataset, features_dict, track_id, k, pc, rankerVars,
                   RAPIDAPI_KEY, caller, max_retries, attempt, requests,
                   features, ended_by>>

NextSession == Fetch \/ GetRecommendations \/ Attempt \/ Orchestrate \/ ClearCache

SpecSession == InitSession /\ [][NextSession]_vars

\* every request ends (requests.get is given a timeout) and every sleep
\* between two attempts is finite, so a running loop takes its next step
SpecSessionFair == SpecSession /\ WF_vars(Attempt)

----------------------------------------------------------------------------
(* The translator's contract.                                              *)

CanonicalKeys == SeqToSet(feature_columns)

IsNumber(value) == value.t \in {"int", "float"}
IsNumericString(value) == value.t = "str" /\ FloatParses(value.s)

\* C1: for every raw feature set the translator returns without raising,
\* and its result has exactly the eleven canonical keys, each holding a
\* number.
C1_TranslatorNeverRaises ==
    pc = "done" =>
        /\ ~raised
        /\ DOMAIN converted = CanonicalKeys
        /\ \A c \in DOMAIN converted : converted[c] \in Int

\* the note names and their pitch classes: the naturals, a sharp one above
\* its natural, a flat one below
Naturals7 ==
    (<<"C">> :> 0) @@ (<<"D">> :> 2) @@ (<<"E">> :> 4) @@ (<<"F">> :> 5)
    @@ (<<"G">> :> 7) @@ (<<"A">> :> 9) @@ (<<"B">> :> 11)
NoteNames ==
    DOMAIN Naturals7
        \cup {n \o <<"#">> : n \in {<<"C">>, <<"D">>, <<"F">>, <<"G">>, <<"A">>}}
        \cup {n \o <<"b">> : n \in {<<"D">>, <<"E">>, <<"G">>, <<"A">>, <<"B">>}}
PitchClass(name) ==
    IF Len(name) = 1 THEN Naturals7[name]
    ELSE IF name[2] = "#" THEN Naturals7[<<name[1]>>] + 1
    ELSE Naturals7[<<name[1]>>] - 1
IsNoteName(s) == \E n \in NoteNames : Upper(n) = Upper(Strip(s))
NoteOf(s) == CHOOSE n \in NoteNames : Upper(n) = Upper(Strip(s))

\* C3: a note name gives its pitch class, a sharp and its enharmonic flat
\* the same one; a numeric string in [0,11] gives that number; any other
\* string, None or an absent key gives 0; the result is an integer in 0..11.
C3_KeyTranslation ==
    (pc = "done" /\ ~raised) =>
        /\ converted["key"] \in 0..11
        /\ "key" \notin DOMAIN features_dict => converted["key"] = 0
        /\ ("key" \in DOMAIN features_dict /\ features_dict["key"].t = "none")
                => converted["key"] = 0
        /\ ("key" \in DOMAIN features_dict /\ features_dict["key"].t = "str") =>
                LET s == features_dict["key"].s IN
                    converted["key"] =
                        IF IsNoteName(s) THEN PitchClass(NoteOf(s))
                        ELSE IF IntParses(s) /\ IntValue(s) \in 0..11 THEN IntValue(s)
                        ELSE 0

\* what a mode that names neither "major" nor "minor" is read as: kind is
\* "one", "zero", "integer" (any other integer) or "other"
ModeKind(value) ==
    LET s == StrOf(value) IN
        IF ~IntParses(s) THEN "other"
        ELSE IF IntValue(s) = 1 THEN "one"
        ELSE IF IntValue(s) = 0 THEN "zero"
        ELSE "integer"
NamesMajor(value) == Contains(Lower(StrOf(value)), <<"m", "a", "j", "o", "r">>)
NamesMinor(value) == Contains(Lower(StrOf(value)), <<"m", "i", "n", "o", "r">>)

\* the mode the translator is to give, other integers being read as
\* otherInteger
ModeRule(raw, otherInteger) ==
    IF "mode" \notin DOMAIN raw THEN 1
    ELSE LET value == raw["mode"] IN
         IF NamesMajor(value) THEN 1
         ELSE IF NamesMinor(value) THEN 0
         ELSE CASE ModeKind(value) = "one" -> 1
                [] ModeKind(value) = "zero" -> 0
                [] ModeKind(value) = "integer" -> otherInteger
                [] OTHER -> 1

\* C4 as stated: "major" gives 1, "minor" gives 0; otherwise 1 gives 1, 0
\* gives 0 and every other numeric or unparseable value gives 1; an absent
\* mode gives 1.
C4_ModeOtherNumbersMajor ==
    (pc = "done" /\ ~raised) => converted["mode"] = ModeRule(features_dict, 1)

\* C4 amended: as stated, but a value whose text is an integer other than
\* 1 gives 0 (minor); only a value whose text is no integer gives the
\* default 1.
C4_ModeOtherIntegersMinor ==
    (pc = "done" /\ ~raised) => converted["mode"] = ModeRule(features_dict, 0)

\* the translator returned minor for a mode that is an integer other than
\* 0 and 1
C4_Witness ==
    /\ pc = "done" /\ ~raised
    /\ "mode" \in DOMAIN features_dict
    /\ ~NamesMajor(features_dict["mode"]) /\ ~NamesMinor(features_dict["mode"])
    /\ ModeKind(features_dict["mode"]) = "integer"
    /\ converted["mode"] = 0

\* the key of the result that holds attribute f
ResultKey(f) == IF f = "happiness" THEN "valence" ELSE f

\* C5: each 0-100 attribute given as a number or a numeric string v gives
\* exactly v/100; an unparseable string, a value of another type or an
\* absent attribute gives exactly 0.5.
C5_PercentScale ==
    (pc = "done" /\ ~raised) =>
        \A f \in SeqToSet(PercentFeatures) :
            IF f \in DOMAIN features_dict /\ IsNumber(features_dict[f])
            THEN 100 * converted[ResultKey(f)] = NumberOf(features_dict[f])
            ELSE IF f \in DOMAIN features_dict /\ IsNumericString(features_dict[f])
            THEN 100 * converted[ResultKey(f)] = FloatValue(features_dict[f].s)
            ELSE 2 * converted[ResultKey(f)] = Unit

\* the translator returned 0.805 for the energy "80.5" and 0.5 for another
\* attribute
C5_Witness ==
    /\ pc = "done" /\ ~raised
    /\ "energy" \in DOMAIN features_dict
    /\ features_dict["energy"] = PyStr(<<"8", "0", ".", "5">>)
    /\ converted["energy"] = 80500
    /\ converted["liveness"] = 50000

\* the tempo block does not raise
TempoAccepted(raw) == "tempo" \in DOMAIN raw => raw["tempo"].t # "none"

\* C6: a loudness with a "dB" suffix gives the numeric remainder, a number
\* or numeric string gives that number, and every unparseable value (with
\* or without the suffix) or an absent loudness gives -10.0.
C6_LoudnessTranslation ==
    (pc = "done" /\ TempoAccepted(features_dict)) =>
        /\ ~raised
        /\ converted["loudness"] =
            IF "loudness" \notin DOMAIN features_dict THEN (-10) * Unit
            ELSE LET value == features_dict["loudness"] IN
                 IF IsNumber(value) THEN NumberOf(value)
                 ELSE IF IsNumericString(value) THEN FloatValue(value.s)
                 ELSE IF value.t = "str" /\ Contains(value.s, dB)
                         /\ FloatParses(Remove(value.s, dB))
                 THEN FloatValue(Remove(value.s, dB))
                 ELSE (-10) * Unit

\* C7: the result has a valence key and never a happiness key; valence is
\* happiness/100 when happiness is a number or a numeric string, and 0.5
\* when the input has neither happiness nor valence.
C7_HappinessRenamed ==
    (pc = "done" /\ ~raised) =>
        /\ "valence" \in DOMAIN converted
        /\ "happiness" \notin DOMAIN converted
        /\ ("happiness" \in DOMAIN features_dict /\ IsNumber(features_dict["happiness"]))
                => 100 * converted["valence"] = NumberOf(features_dict["happiness"])
        /\ ("happiness" \in DOMAIN features_dict
                /\ IsNumericString(features_dict["happiness"]))
                => 100 * converted["valence"] = FloatValue(features_dict["happiness"].s)
        /\ ("happiness" \notin DOMAIN features_dict /\ "valence" \notin DOMAIN features_dict)
                => 2 * converted["valence"] = Unit

\* the translator returned valence 0.8 for happiness 80
C7_Witness ==
    /\ pc = "done" /\ ~raised
    /\ "happiness" \in DOMAIN features_dict
    /\ features_dict["happiness"] = PyInt(80)
    /\ converted["valence"] = 80000
    /\ "happiness" \notin DOMAIN converted

----------------------------------------------------------------------------
(* The ranker's contract.                                                  *)

NumRows == Len(dataset.rows)
\* the identifier of a catalog row
IdOf(row) == IF "track_id" \in DOMAIN row THEN row["track_id"] ELSE "Unknown"
RowIds == {IdOf(dataset.rows[i]) : i \in 1..NumRows}
DistinctRowIds ==
    \A i, j \in 1..NumRows :
        i # j => IdOf(dataset.rows[i]) # IdOf(dataset.rows[j])
SeedInCatalog == track_id # NoTrack /\ track_id \in RowIds
Min(a, b) == IF a < b THEN a ELSE b

\* the call reached the selection passes and returned their list
Ranked == pc = "done" /\ ~raised

ResultIds == {recommendations[i].track_id : i \in 1..Len(recommendations)}
NoRepeatedId(recs) ==
    \A i, j \in 1..Len(recs) : i # j => recs[i].track_id # recs[j].track_id

\* a loudness string with no number in it, with or without the dB unit
MalformedLoudness(raw) ==
    /\ "loudness" \in DOMAIN raw
    /\ raw["loudness"].t = "str"
    /\ ~FloatParses(Remove(raw["loudness"].s, dB))
WithDefaultLoudness(raw) == DictSet(raw, "loudness", PyFloat((-10) * Unit))

\* C2: a call whose payload has one malformed attribute (a garbled
\* loudness) returns the list it returns for the same payload with that
\* attribute at its default; a bad field never empties the result.
C2_MalformedFieldHarmless ==
    (pc = "done" /\ MalformedLoudness(features_dict)) =>
        recommendations \in
            {out.recommendations :
                out \in get_recommendations_from_features(
                            WithDefaultLoudness(features_dict), track_id, dataset, k)}

\* C8: the returned list is sorted by non-increasing similarity_score, also
\* when the fallback pass added entries.
C8_SortedBySimilarity ==
    pc = "done" =>
        \A i, j \in 1..Len(recommendations) :
            i < j => recommendations[i].similarity_score
                        >= recommendations[j].similarity_score

\* exactly k results, none the seed, no id twice
ExactlyKWithoutSeed ==
    /\ Len(recommendations) = k
    /\ track_id \notin ResultIds
    /\ NoRepeatedId(recommendations)

\* C9 as stated: for any catalog of N >= k+1 rows, repeated track_ids
\* included, a call with a seed returns exactly k results, none the seed,
\* all with distinct track_ids.
C9_ExactlyKForAnyCatalog ==
    (Ranked /\ track_id # NoTrack /\ NumRows >= k + 1) => ExactlyKWithoutSeed

\* the distinct ids other than the seed among kneighbors' candidates
CandidateIds ==
    {IdOf(dataset.rows[indices[i]]) : i \in 1..Len(indices)} \ {track_id}

\* C9 amended: for a catalog of N >= k+1 rows whose track_ids are pairwise
\* distinct, a call with a seed that reaches the selection passes returns
\* exactly k results, none the seed, all distinct; with repeated ids it
\* does so exactly when the candidates carry k distinct ids other than the
\* seed.
C9_ExactlyKForDistinctIds ==
    (Ranked /\ track_id # NoTrack /\ NumRows >= k + 1) =>
        /\ DistinctRowIds => ExactlyKWithoutSeed
        /\ ExactlyKWithoutSeed <=> Cardinality(CandidateIds) >= k

\* a call on a catalog of three rows with distinct ids, the seed among
\* them, returned the two other tracks
C9_Witness ==
    /\ Ranked /\ SeedInCatalog /\ DistinctRowIds
    /\ k = 2 /\ NumRows = 3
    /\ ExactlyKWithoutSeed

\* C10 as stated: for any catalog of N < k+1 rows that contains the seed,
\* the call returns exactly min(N, k) results.
C10_MinOfRowsAndK ==
    (Ranked /\ SeedInCatalog /\ NumRows < k + 1) =>
        Len(recommendations) = Min(NumRows, k)

\* C10 amended: for a catalog of N < k+1 rows that contains the seed, a
\* call that reaches the selection passes returns one result per distinct
\* track_id of the catalog, the seed among them: min(N, k) results when
\* the track_ids are pairwise distinct.
C10_OnePerDistinctId ==
    (Ranked /\ SeedInCatalog /\ NumRows < k + 1) =>
        /\ Len(recommendations) = Cardinality(RowIds)
        /\ ResultIds = RowIds
        /\ DistinctRowIds => Len(recommendations) = Min(NumRows, k)

\* a call on a catalog of two rows with distinct ids, the seed among them,
\* returned both, the seed added by the fallback pass
C10_Witness ==
    /\ Ranked /\ SeedInCatalog /\ DistinctRowIds
    /\ k = 2 /\ NumRows = 2
    /\ Len(first_pass) = 1
    /\ Len(recommendations) = 2
    /\ track_id \in ResultIds

----------------------------------------------------------------------------
(* The selection passes.                                                   *)

\* the catalog id of candidate p, and the entry a pass builds from it
CandidateId(p) == IdOf(dataset.rows[indices[p]])
CandidateEntry(p) ==
    [track_id |-> CandidateId(p), track_name |-> "Unknown",
     artists |-> "Unknown", album_name |-> "Unknown",
     similarity_score |-> Resolution - distances[p]]

\* the ids of the first n entries of the returned list
IdsBefore(n) == {recommendations[i].track_id : i \in 1..n}

\* entry j of the returned list is the first candidate, in kneighbors'
\* order, whose id is not among the entries before it, the seed or not
AddedByFallback(j) ==
    \E p \in 1..Len(indices) :
        /\ CandidateId(p) \notin IdsBefore(j - 1)
        /\ \A q \in 1..(p - 1) : CandidateId(q) \in IdsBefore(j - 1)
        /\ recommendations[j] = CandidateEntry(p)

\* C11: the seed is in the returned list only when the first pass
\* accumulated fewer than k results; then the second pass walks the same
\* candidates in the same order, skips only ids already in the result (the
\* seed no longer), and stops as soon as k results are accumulated.
C11_FallbackFillsInOrder ==
    Ranked =>
        /\ track_id \in ResultIds => Len(first_pass) < k
        /\ Len(first_pass) >= k => recommendations = first_pass
        /\ Len(first_pass) < k =>
            /\ Len(recommendations) <= k
            /\ SubSeq(recommendations, 1, Len(first_pass)) = first_pass
            /\ \A j \in (Len(first_pass) + 1)..Len(recommendations) : AddedByFallback(j)
            /\ Len(recommendations) < k =>
                \A p \in 1..Len(indices) : CandidateId(p) \in ResultIds

\* of three rows two carry the seed's id: the first pass found the one
\* other track, the fallback pass added the seed once and skipped its
\* second row
C11_Witness ==
    /\ Ranked /\ SeedInCatalog
    /\ k = 2 /\ NumRows = 3 /\ Cardinality(RowIds) = 2
    /\ Len(first_pass) = 1
    /\ Len(recommendations) = 2
    /\ recommendations[2].track_id = track_id

\* C12: no two entries of a returned list share a track_id, for every
\* catalog (repeated ids or not), seed and k, whichever pass added them.
C12_NoSharedTrackId ==
    pc = "done" => NoRepeatedId(recommendations)

\* a long catalog of rows that repeat two ids, no seed: the first pass
\* returned both ids once
C12_Witness ==
    /\ Ranked /\ track_id = NoTrack
    /\ NumRows > MaxRows /\ Cardinality(RowIds) = 2
    /\ k = 2 /\ Len(first_pass) = 2
    /\ recommendations = first_pass

\* C13: on a catalog with zero rows the call returns the empty list and no
\* exception reaches its caller, for every query, seed and k.
C13_EmptyCatalogReturnsEmpty ==
    (pc # "start" /\ NumRows = 0) =>
        /\ pc = "done"
        /\ recommendations = <<>>

\* a call on a header-only catalog: fit_transform raised right after the
\* load, the except clause returned the empty list
C13_Witness ==
    /\ pc = "done" /\ NumRows = 0
    /\ raised /\ calls = <<"load_and_prepare_dataset">>
    /\ recommendations = <<>>

----------------------------------------------------------------------------
(* The normalised space and the query vector.                              *)

\* the canonical feature columns the catalog has, in canonical order
CatalogFeatureColumns ==
    SelectSeq(feature_columns, LAMBDA col : col \in dataset.columns)

\* the translated value of a column, and the sum of the catalog's column
QueryValue(col) ==
    IF col \in DOMAIN converted THEN converted[col] ELSE DefaultFor(col)
ColumnSum(col) ==
    SumOver([i \in 1..NumRows |-> dataset.rows[i][col]], 1..NumRows)

Translates(raw) == ~convert_soundnet_to_spotify_scale(raw).raises

\* the query vector has one slot per catalog feature column, slot j holding
\* the standardised value of column j of the feature matrix
OneSlotPerColumn ==
    /\ matrix_columns = CatalogFeatureColumns
    /\ Len(query_vector) = Len(matrix_columns)
    /\ \A j \in 1..Len(matrix_columns) :
        query_vector[j] = NumRows * QueryValue(matrix_columns[j])
                            - ColumnSum(matrix_columns[j])

\* C16 as stated: for every subset of the canonical feature columns present
\* in the catalog (the empty one included) the call does not fail for the
\* missing columns, and the query vector has one slot per available column
\* in the order of the feature matrix.
C16_AnySubsetOfColumns ==
    (pc = "done" /\ NumRows >= 1 /\ Translates(features_dict)) =>
        Ranked /\ OneSlotPerColumn

\* C16 amended: for every non-empty subset of the canonical feature columns
\* present in the catalog the call does not fail for the missing columns,
\* and the query vector has one slot per available column in the order of
\* the feature matrix; with none of the columns the fit raises and the
\* call returns the empty list.
C16_AnyNonEmptySubsetOfColumns ==
    (pc = "done" /\ NumRows >= 1 /\ Translates(features_dict)) =>
        /\ CatalogFeatureColumns # <<>> => Ranked /\ OneSlotPerColumn
        /\ CatalogFeatureColumns = <<>> => raised /\ recommendations = <<>>

\* a call on a two-row catalog that has the mode column but not the key
\* column returned a result from a one-slot query vector
C16_Witness ==
    /\ Ranked /\ NumRows = 2
    /\ CatalogFeatureColumns = <<"mode">>
    /\ Len(query_vector) = 1
    /\ query_vector[1] # 0
    /\ recommendations # <<>>

\* the sum of the squares of the catalog's column, and N^2 times the
\* variance StandardScaler divides by (1 for a constant column)
ColumnSquares(col) ==
    SumOver([i \in 1..NumRows |-> dataset.rows[i][col] * dataset.rows[i][col]],
            1..NumRows)
ColumnSpread(col) ==
    IF NumRows * ColumnSquares(col) > ColumnSum(col) * ColumnSum(col)
    THEN NumRows * ColumnSquares(col) - ColumnSum(col) * ColumnSum(col)
    ELSE NumRows * NumRows

\* C18: the per-column parameters applied to a query vector are those
\* fitted on the catalog and depend on the catalog alone (its row count,
\* column sums and column variances, whatever the query), and the query
\* vector is the translated query transformed with them.
C18_ScalerFromCatalogAlone ==
    (pc = "done" /\ NumRows >= 1 /\ CatalogFeatureColumns # <<>>) =>
        /\ Len(fitted_scaler) = Len(CatalogFeatureColumns)
        /\ \A j \in 1..Len(fitted_scaler) :
            /\ fitted_scaler[j].N = NumRows
            /\ fitted_scaler[j].S = ColumnSum(CatalogFeatureColumns[j])
            /\ fitted_scaler[j].W = ColumnSpread(CatalogFeatureColumns[j])
        /\ Ranked =>
            \A j \in 1..Len(query_vector) :
                query_vector[j] = fitted_scaler[j].N * QueryValue(CatalogFeatureColumns[j])
                                    - fitted_scaler[j].S

\* a call on a three-row catalog whose key column is not constant: the
\* query's key slot is off the catalog's mean
C18_Witness ==
    /\ Ranked /\ NumRows = 3
    /\ CatalogFeatureColumns = <<"key", "mode">>
    /\ fitted_scaler[1].S \in {1, 2}
    /\ query_vector[1] # 0

\* the cosine distance of catalog row i to the query vector
RowDistance(i) ==
    CosineDistance(fitted_scaler, query_vector,
                   [j \in 1..Len(matrix_columns) |->
                       NumRows * dataset.rows[i][matrix_columns[j]]
                         - ColumnSum(matrix_columns[j])])

\* C19: for every k >= 1 and every non-empty catalog of N rows, the
\* candidate list both passes examine has exactly min(k + 5, N) entries,
\* ordered by non-decreasing cosine distance to the query: they are the
\* nearest rows.
C19_CandidateList ==
    Ranked =>
        /\ Len(indices) = Min(k + 5, NumRows)
        /\ Len(distances) = Len(indices)
        /\ \A p, q \in 1..Len(indices) :
            /\ p < q => distances[p] <= distances[q]
            /\ p # q => indices[p] # indices[q]
        /\ \A p \in 1..Len(indices) : distances[p] = RowDistance(indices[p])
        /\ \A i \in 1..NumRows :
            (\A p \in 1..Len(indices) : indices[p] # i) =>
                distances[Len(indices)] <= RowDistance(i)

\* a call with k = 1 on a long catalog: six of its rows are candidates, at
\* two different distances
C19_Witness ==
    /\ Ranked /\ k = 1 /\ NumRows > 6
    /\ Len(indices) = 6
    /\ distances[1] < distances[6]

----------------------------------------------------------------------------
(* The orchestrator and the provider client.                               *)

\* get_recommendations has returned its list
Recommended == pc = "idle" /\ last = "get_recommendations"

\* the fetch returned the unavailable signal: None or an empty mapping
NoFeatures == features = PyNone \/ features = PyDict(EmptyDict)

\* C14: when the fetch returns None or an empty mapping, get_recommendations
\* returns the empty list at once: the catalog is not loaded, the
\* translator and the ranker do not run.
C14_ShortCircuitOnNoFeatures ==
    (Recommended /\ NoFeatures) =>
        /\ calls = <<>>
        /\ recommendations = <<>>
        /\ ~raised
        /\ fitted_scaler = <<>> /\ converted = EmptyDict /\ indices = <<>>

\* the provider answered 200 with an empty mapping: get_recommendations
\* returned without a call of the ranker, on a catalog that has rows
C14_Witness ==
    /\ Recommended
    /\ features = PyDict(EmptyDict) /\ ended_by = "200"
    /\ NumRows > 0
    /\ calls = <<>>
    /\ recommendations = <<>>

\* the outcome of a request: which of the provider and the catalog were
\* unavailable
ProviderUnavailable == NoFeatures
CatalogUnavailable ==
    ~ProviderUnavailable /\ (NumRows = 0 \/ CatalogFeatureColumns = <<>>)

\* C15: what get_recommendations returns tells provider-unavailable and
\* catalog-unavailable from zero-results: a request that found no features
\* or no catalog does not return what a zero-results request returns, the
\* empty list.
C15_UnavailableNotZeroResults ==
    (Recommended /\ (ProviderUnavailable \/ CatalogUnavailable)) =>
        recommendations # <<>>

\* C17: once get_audio_features_from_soundnet has returned for a track,
\* with features or with a failure, no later call for that track goes to
\* the provider until clear_cache is called.
C17_NoRequestAfterReturn ==
    pc = "request" => track_id \notin returned_tracks

\* C20: whatever the provider answers, one call of
\* get_audio_features_from_soundnet issues at most max_retries + 1 requests,
\* and a call that went to the provider returns.
C20_BoundedRequestsAndReturns ==
    /\ [](requests <= max_retries + 1)
    /\ (pc = "request") ~> (pc # "request")

\* a call with max_retries = 2 got three answers that each led to another
\* attempt, and returned None after its third request
C20_Witness ==
    /\ pc = "idle" /\ last = "get_audio_features_from_soundnet"
    /\ max_retries = 2 /\ requests = 3
    /\ ended_by = "exhausted"
    /\ features = PyNone

\* the known-failed marker is stored for track t
KnownFailed(t) == t \in DOMAIN features_cache /\ features_cache[t] = PyNone

\* the ends of a call that store the known-failed marker: a 404, and the
\* last attempt ending in a timeout, a request error, another non-200
\* status or a body that does not decode
MarkerEnds == {"404", "Timeout", "RequestException", "exhausted"}

\* this step ends a call that went to the provider
CallEnds == pc = "request" /\ pc' # "request"

\* this step is clear_cache()
CacheCleared == pc = "idle" /\ last' = "clear_cache" /\ pc' = "idle"

\* this step is the entry of a call for track t
CallBegins(t) == pc = "idle" /\ ~CacheCleared /\ track_id' = t

\* C21: a call for t that ends on a 404 or after exhausting its attempts
\* stores the known-failed marker; while the marker is stored every call
\* for t returns None at its entry, without a request, and only
\* clear_cache removes the marker.
C21_KnownFailedStays ==
    [][/\ (CallEnds /\ ended_by' \in MarkerEnds) =>
            (features' = PyNone /\ KnownFailed(track_id)')
       /\ \A t \in Tracks :
            KnownFailed(t) =>
                /\ CacheCleared \/ KnownFailed(t)'
                /\ CallBegins(t) =>
                    /\ pc' # "request"
                    /\ requests' = 0
                    /\ features' = PyNone
                    /\ ended_by' = "cache"]_vars

\* the known-failed marker is stored for t2: a call for t2, three times
\* allowed to try, returned None from the cache without a request
C21_Witness ==
    /\ pc = "idle" /\ last = "get_audio_features_from_soundnet"
    /\ track_id = "t2" /\ KnownFailed("t2")
    /\ ended_by = "cache" /\ max_retries = 2
    /\ requests = 0 /\ features = PyNone

\* the ends of a call that record nothing: a missing API key, a 401, a 403,
\* and a 429 on the final attempt
UncachedEnds == {"no key", "401", "403", "429"}

\* this step is a return of get_audio_features_from_soundnet, at its entry
\* or from its loop
CallReturns ==
    /\ pc \in {"idle", "request"} /\ pc' # "request"
    /\ ~CacheCleared

\* this step stores features for track t, or replaces what was stored
StoresFeatures(t) ==
    /\ t \in DOMAIN features_cache'
    /\ features_cache'[t] # PyNone
    /\ ~(t \in DOMAIN features_cache /\ features_cache[t] = features_cache'[t])

\* C22: a call that ends on a missing API key, a 401, a 403 or a 429 on the
\* final attempt returns None and leaves the cache as it was; an entry that
\* is not None is stored only by a call for that track that got a 200 with
\* a body that decodes, and is what that call returns.
C22_UncachedEndsAndStoredFeatures ==
    [][/\ (CallReturns /\ ended_by' \in UncachedEnds) =>
            (features' = PyNone /\ features_cache' = features_cache)
       /\ \A t \in Tracks :
            StoresFeatures(t) =>
                /\ pc = "request" /\ track_id = t
                /\ ended_by' = "200"
                /\ features' = features_cache'[t]]_vars

\* a call for t1 with max_retries = 1 was answered 429 twice and returned
\* None: t1 has no entry, and the features stored for t2 are still there
C22_Witness ==
    /\ pc = "idle" /\ last = "get_audio_features_from_soundnet"
    /\ track_id = "t1" /\ ended_by = "429"
    /\ max_retries = 1 /\ requests = 2
    /\ features = PyNone
    /\ DOMAIN features_cache = {"t2"}
    /\ features_cache["t2"] = PyDict(WellFormedQuery)

----------------------------------------------------------------------------
(* A catalog without identifiers.                                          *)

\* the catalog has no track_id column
NoIdColumn == "track_id" \notin dataset.columns

\* C23: on a catalog without a track_id column every returned entry has
\* the identifier "Unknown", two entries never pass the duplicate check,
\* and the call returns at most one entry for every k >= 1 and every
\* catalog size: exactly one when the passes ran on a catalog with rows.
C23_AtMostOneWithoutIds ==
    (pc = "done" /\ NoIdColumn) =>
        /\ Len(recommendations) <= 1
        /\ \A i \in 1..Len(recommendations) :
            recommendations[i].track_id = "Unknown"
        /\ (Ranked /\ NumRows > 0) => Len(recommendations) = 1

\* a call with k = 2 and no seed on a long catalog without a track_id
\* column, whose candidates are at two distances: one entry came back
C23_Witness ==
    /\ Ranked /\ NoIdColumn
    /\ k = 2 /\ track_id = NoTrack
    /\ NumRows > MaxRows
    /\ Len(indices) = 7 /\ distances[1] < distances[7]
    /\ Len(recommendations) = 1
    /\ recommendations[1].track_id = "Unknown"

=============================================================================
